---- MODULE Spec2Model ----
(***************************************************************************)
(* A model of access-json: JSONQuery (src/src/query.rs), the query parser  *)
(* (src/src/query_parser.rs) and the QueryExecutor, a serde Serializer     *)
(* that is driven by the document's Serialize implementation               *)
(* (src/src/query_executor.rs).                                            *)
(*                                                                         *)
(* Strings are sequences of one-character strings, so that the parser can  *)
(* read them character by character: the name "a" is <<"a">>.              *)
(***************************************************************************)
EXTENDS Integers, Sequences, FiniteSets, TLC

VARIABLES
    doc,            \* the target handed to JSONQuery::execute
    query,          \* QueryExecutor.query (= JSONQuery.elements)
    debug,          \* TRUE iff the build has debug assertions (debug_assert!)
    current_path,   \* QueryExecutor.current_path
    state,          \* QueryExecutor.state
    output,         \* QueryExecutor.output
    todo,           \* the calls the document's Serialize impl and the handlers
                    \* that are waiting for a nested serialize still have to make
    pc,             \* "new" | "run" | "done": where JSONQuery::execute is
    result,         \* what JSONQuery::execute returned (once pc = "done")
    ncalls,         \* number of Serializer callbacks invoked so far
    first_err,      \* the first error a callback returned ("Ok" while none did)
    events,         \* what the document has done so far (history)
    previous,       \* what the execute call before this one returned, if any
    nstep,          \* what a call of next_step returned, if one was made
    data,           \* Parser.data
    position,       \* Parser.position
    parsed,         \* parse_query's output vector
    presult,        \* what parse_query returned (once ppc = "done")
    ppc,            \* "idle" | "run" | "done": where parse_query is
    nnext,          \* number of Parser::next calls made
    rendered        \* the JSONQuery whose Display text is being parsed, if any

exec_vars == <<doc, query, debug, current_path, state, output, todo, pc, result,
               ncalls, first_err, events, previous, nstep>>
parse_vars == <<data, position, parsed, presult, ppc, nnext, rendered>>
vars == <<doc, query, debug, current_path, state, output, todo, pc, result,
          ncalls, first_err, events, previous, nstep, data, position, parsed, presult, ppc,
          nnext, rendered>>

(***************************************************************************)
(* Bounds of the model.                                                    *)
(***************************************************************************)
MaxNodes == 3
MaxLen == 2
MaxQueryLen == 2

Last(s) == s[Len(s)]
Front(s) == SubSeq(s, 1, Len(s) - 1)
Min(a, b) == IF a < b THEN a ELSE b

(***************************************************************************)
(* query.rs: QueryElement.                                                 *)
(***************************************************************************)
Field(n) == [tag |-> "Field", name |-> n, index |-> 0]
ArrayItem(i) == [tag |-> "ArrayItem", name |-> <<>>, index |-> i]

(***************************************************************************)
(* serde_json::Value.  An Object is a map from its keys to their values    *)
(* (serde_json::Map: a later insertion of a key replaces the earlier one). *)
(***************************************************************************)
JNull == [t |-> "Null", v |-> <<>>]
JNumber(n) == [t |-> "Number", v |-> n]
JString(s) == [t |-> "String", v |-> s]
JArray(items) == [t |-> "Array", v |-> items]
LastIndexOf(keys, n, k) == CHOOSE i \in 1..n : keys[i] = k /\ \A j \in (i+1)..n : keys[j] # k
JObject(keys, values) ==
    LET n == Min(Len(keys), Len(values))
    IN  [t |-> "Object",
         v |-> [k \in {keys[i] : i \in 1..n} |-> values[LastIndexOf(keys, n, k)]]]

(***************************************************************************)
(* The documents: the shapes of the serde data model a Serialize impl can  *)
(* describe itself with.  `len` is the length a sequence announces         *)
(* (NoLen: none); `fields` are a record's field names, `keys` a map's keys *)
(* (documents themselves: serde does not force them to be strings).        *)
(***************************************************************************)
NoLen == -1
Node(k, nm, n, l, it, fs, ks) ==
    [kind |-> k, name |-> nm, num |-> n, len |-> l, items |-> it, fields |-> fs, keys |-> ks]
DI32(n) == Node("i32", <<>>, n, 0, <<>>, <<>>, <<>>)
DChar(c) == Node("char", <<c>>, 0, 0, <<>>, <<>>, <<>>)
DStr(s) == Node("str", s, 0, 0, <<>>, <<>>, <<>>)
DUnit == Node("unit", <<>>, 0, 0, <<>>, <<>>, <<>>)
DFail == Node("fail", <<>>, 0, 0, <<>>, <<>>, <<>>)
DUnitVariant(c) == Node("unit_variant", c, 0, 0, <<>>, <<>>, <<>>)
DNewtypeStruct(x) == Node("newtype_struct", <<>>, 0, 0, <<x>>, <<>>, <<>>)
DNone == Node("none", <<>>, 0, 0, <<>>, <<>>, <<>>)
DSome(x) == Node("some", <<>>, 0, 0, <<x>>, <<>>, <<>>)
DNewtypeVariant(c, x) == Node("newtype_variant", c, 0, 0, <<x>>, <<>>, <<>>)
DSeqLen(items, l) == Node("seq", <<>>, 0, l, items, <<>>, <<>>)
DSeq(items) == DSeqLen(items, Len(items))
DTupleVariant(c, items) == Node("tuple_variant", c, 0, Len(items), items, <<>>, <<>>)
DStruct(fs, items) == Node("struct", <<>>, 0, 0, items, fs, <<>>)
DStructVariant(c, fs, items) == Node("struct_variant", c, 0, 0, items, fs, <<>>)
DMap(ks, items) == Node("map", <<>>, 0, 0, items, <<>>, ks)

PrimKinds == {"i32", "char", "str", "unit"}

(* serde_json::to_value of a primitive, as possible_result calls it.       *)
to_value(found) ==
    CASE found.kind = "i32" -> JNumber(found.num)
      [] found.kind = "char" -> JString(found.name)
      [] found.kind = "str" -> JString(found.name)
      [] OTHER -> JNull

(***************************************************************************)
(* query_executor.rs: enum State, OutputStackFrame, QueryExecErr.          *)
(***************************************************************************)
StartMap == [s |-> "StartMap", name |-> <<>>, idx |-> 0, len |-> 0]
MapKey == [s |-> "MapKey", name |-> <<>>, idx |-> 0, len |-> 0]
MapKeyStr(n) == [s |-> "MapKeyStr", name |-> n, idx |-> 0, len |-> 0]
MapValue == [s |-> "MapValue", name |-> <<>>, idx |-> 0, len |-> 0]
Sequence(i, l) == [s |-> "Sequence", name |-> <<>>, idx |-> i, len |-> l]

Frame(k) == [kind |-> k, list_items |-> <<>>, map_keys |-> <<>>, map_values |-> <<>>]
RootFrame == Frame("Root")

OkS == [tag |-> "Ok", msg |-> ""]
Panic(m) == [tag |-> "Panic", msg |-> m]
InternalError(m) == [tag |-> "InternalError", msg |-> m]
Serialization(m) == [tag |-> "Serialization", msg |-> m]
EmptyQuery == [tag |-> "EmptyQuery", msg |-> ""]

(***************************************************************************)
(* The executor as a value: the handlers below take it and return it       *)
(* changed; `err` is OkS until a handler panics or returns Err, and `ret`  *)
(* is the handler's boolean return value.                                  *)
(***************************************************************************)
Raise(self, e) == IF self.err.tag = "Ok" THEN [self EXCEPT !.err = e] ELSE self
Failed(self) == self.err.tag # "Ok"
debug_assert(self, cond, m) == IF self.debug /\ ~cond THEN Raise(self, Panic(m)) ELSE self

(* OutputStackFrame::push_item / push_key / push_value on output.last_mut().unwrap() *)
(* the frame left as it was: the item is not recorded *)
drop_item(self, item) == self
push_item(self, item) ==
    IF Failed(self) THEN self
    ELSE IF self.output = <<>> THEN Raise(self, Panic("unwrap on None"))
    ELSE LET n == Len(self.output)
             a == debug_assert(self, self.output[n].kind # "Map", "push_item: kind is Map")
         IN  IF Failed(a) THEN a
             ELSE [a EXCEPT !.output[n].kind = "List",
                            !.output[n].list_items = Append(@, item)]
push_key(self, item) ==
    IF Failed(self) THEN self
    ELSE IF self.output = <<>> THEN Raise(self, Panic("unwrap on None"))
    ELSE LET n == Len(self.output)
             a == debug_assert(self, self.output[n].kind # "List", "push_key: kind is List")
         IN  IF Failed(a) THEN a
             ELSE [a EXCEPT !.output[n].kind = "Map",
                            !.output[n].map_keys = Append(@, item)]
push_value(self, item) ==
    IF Failed(self) THEN self
    ELSE IF self.output = <<>> THEN Raise(self, Panic("unwrap on None"))
    ELSE LET n == Len(self.output)
             a == debug_assert(self, self.output[n].kind # "List", "push_value: kind is List")
         IN  IF Failed(a) THEN a
             ELSE [a EXCEPT !.output[n].kind = "Map",
                            !.output[n].map_values = Append(@, item)]

(* OutputStackFrame::finish (the Root arm panics) *)
finish(frame) ==
    IF frame.kind = "List" THEN JArray(frame.list_items)
    ELSE JObject(frame.map_keys, frame.map_values)

(* let top = self.output.pop().unwrap(); self.output.last_mut().unwrap().push(top) *)
pop_and_push(self) ==
    IF Failed(self) THEN self
    ELSE IF Len(self.output) < 2 THEN Raise(self, Panic("unwrap on None"))
    ELSE LET top == Last(self.output)
             rest == [self EXCEPT !.output = Front(@)]
         IN  IF top.kind = "Root" THEN Raise(rest, Panic("What's a ROOT?"))
             ELSE IF Last(rest.output).kind = "Map" THEN push_value(rest, finish(top))
             ELSE push_item(rest, finish(top))

(* enum NextStep: NotMatching | Found(elem) | IsMatch(rel) *)
NotMatchingStep == [tag |-> "NotMatching", elem |-> Field(<<>>), rel |-> <<>>]
Found(e) == [tag |-> "Found", elem |-> e, rel |-> <<>>]
IsMatch(relative) == [tag |-> "IsMatch", elem |-> Field(<<>>), rel |-> relative]
NoStep == [tag |-> "None", elem |-> Field(<<>>), rel |-> <<>>]

(* the answer taken from the two lengths alone *)
next_step_by_length(self) ==
    IF Len(self.current_path) < Len(self.query)
    THEN Found(self.query[Len(self.current_path) + 1])
    ELSE IsMatch(SubSeq(self.current_path, Len(self.query) + 1, Len(self.current_path)))

(* QueryExecutor::next_step: the loop, then the two exits *)
RECURSIVE next_step_loop(_, _, _)
next_step_loop(q, p, i) ==
    IF i < Len(q) /\ i < Len(p)
    THEN IF q[i + 1] # p[i + 1]
         THEN NotMatchingStep
         ELSE next_step_loop(q, p, i + 1)
    ELSE IF Len(p) < Len(q)
         THEN Found(q[i + 1])
         ELSE IsMatch(SubSeq(p, i + 1, Len(p)))
next_step(self) == next_step_loop(self.query, self.current_path, 0)
is_match(self) == next_step(self).tag = "IsMatch"

(* the value passed over: nothing is recorded *)
discard(self, found) == self

(* the value recorded wherever the traversal stands *)
record_anywhere(self, found) ==
    IF Failed(self) THEN self
    ELSE IF self.output = <<>> \/ self.state = <<>> THEN self
    ELSE IF Last(self.state).s \in {"MapKey", "MapKeyStr"} THEN self
    ELSE IF Last(self.state).s \in {"StartMap", "MapValue"}
    THEN push_value(self, to_value(found))
    ELSE push_item(self, to_value(found))

(* QueryExecutor::possible_result *)
possible_result(self, found) ==
    IF Failed(self) \/ ~is_match(self) THEN self
    ELSE IF self.output = <<>> \/ self.state = <<>> THEN Raise(self, Panic("unwrap on None"))
    ELSE LET top == Last(self.state)
         IN  IF top.s \in {"MapKey", "MapKeyStr"}
             THEN Raise(self, Panic("Shouldn't call possible_result here!"))
             ELSE IF top.s \in {"StartMap", "MapValue"}
             THEN push_value(self, to_value(found))
             ELSE push_item(self, to_value(found))

(* any name entered where the query has a field next *)
enter_any_name(self, name) ==
    IF Failed(self) THEN self
    ELSE LET step == next_step(self)
             a == IF step.tag = "IsMatch" THEN push_key(self, name) ELSE self
             continues_match ==
                 \/ step.tag = "IsMatch"
                 \/ step.tag = "Found" /\ step.elem.tag = "Field"
         IN  IF Failed(a) THEN a
             ELSE IF continues_match
             THEN [a EXCEPT !.current_path = Append(@, Field(name)), !.ret = TRUE]
             ELSE [a EXCEPT !.ret = FALSE]

(* QueryExecutor::enter_name: ret says whether the scope is entered *)
enter_name(self, name) ==
    IF Failed(self) THEN self
    ELSE LET step == next_step(self)
             a == IF step.tag = "IsMatch" THEN push_key(self, name) ELSE self
             continues_match ==
                 \/ step.tag = "IsMatch"
                 \/ step.tag = "Found" /\ step.elem.tag = "Field" /\ name = step.elem.name
         IN  IF Failed(a) THEN a
             ELSE IF continues_match
             THEN [a EXCEPT !.current_path = Append(@, Field(name)), !.ret = TRUE]
             ELSE [a EXCEPT !.ret = FALSE]

(* QueryExecutor::must_enter_name *)
must_enter_name(self, name) ==
    IF Failed(self) THEN self
    ELSE LET a == [self EXCEPT !.current_path = Append(@, Field(name))]
         IN  IF is_match(a) THEN push_key(a, name) ELSE a

(* the name left on current_path *)
keep_name(self, checked, name) == self

(* QueryExecutor::exit_name; checked: the name is Some(name) *)
exit_name(self, checked, name) ==
    IF Failed(self) THEN self
    ELSE IF self.current_path = <<>>
    THEN debug_assert(self, ~checked, "exit_name: popped None")
    ELSE LET top == Last(self.current_path)
             a == [self EXCEPT !.current_path = Front(@)]
         IN  debug_assert(a, checked => top = Field(name), "exit_name: other element on top")

(* QueryExecutor::enter_sequence *)
enter_sequence(self, length) ==
    IF Failed(self) THEN self
    ELSE LET a == IF is_match(self)
                  THEN [self EXCEPT !.output = Append(@, Frame("List"))]
                  ELSE self
         IN  IF length = NoLen THEN Raise(a, Panic("All sequences have lengths?"))
             ELSE [a EXCEPT !.state = Append(@, Sequence(0, length))]

(* any index entered where the query has one next *)
enter_any_index(self, index) ==
    IF Failed(self) THEN self
    ELSE LET step == next_step(self)
             should_enter ==
                 \/ step.tag = "IsMatch"
                 \/ step.tag = "Found" /\ step.elem.tag = "ArrayItem"
         IN  IF should_enter
             THEN [self EXCEPT !.current_path = Append(@, ArrayItem(index)), !.ret = TRUE]
             ELSE [self EXCEPT !.ret = FALSE]

(* QueryExecutor::enter_index *)
enter_index(self, index) ==
    IF Failed(self) THEN self
    ELSE LET step == next_step(self)
             should_enter ==
                 \/ step.tag = "IsMatch"
                 \/ step.tag = "Found" /\ step.elem.tag = "ArrayItem" /\ index = step.elem.index
         IN  IF should_enter
             THEN [self EXCEPT !.current_path = Append(@, ArrayItem(index)), !.ret = TRUE]
             ELSE [self EXCEPT !.ret = FALSE]

(* QueryExecutor::sequence_element up to value.serialize: ret says whether *)
(* the element is serialized, idx is the element's index                   *)
sequence_element_enter(self) ==
    IF Failed(self) THEN self
    ELSE IF self.state = <<>> \/ Last(self.state).s # "Sequence"
    THEN Raise([self EXCEPT !.state = IF @ = <<>> THEN @ ELSE Front(@)],
               Panic("state should be sequence"))
    ELSE LET top == Last(self.state)
         IN  IF ~(top.idx < top.len)
             THEN Raise([self EXCEPT !.state = Front(@)], Panic("assertion failed: idx < len"))
             ELSE enter_index([self EXCEPT !.state[Len(self.state)] = Sequence(top.idx + 1, top.len),
                                           !.idx = top.idx],
                              top.idx)

(* QueryExecutor::exit_index *)
exit_index(self, index) ==
    IF Failed(self) THEN self
    ELSE IF self.current_path = <<>>
    THEN debug_assert(self, FALSE, "exit_index: popped None")
    ELSE debug_assert([self EXCEPT !.current_path = Front(@)],
                      Last(self.current_path) = ArrayItem(index),
                      "exit_index: other element on top")

(* QueryExecutor::exit_sequence *)
exit_sequence(self) ==
    IF Failed(self) THEN self
    ELSE LET a == IF is_match(self) THEN pop_and_push(self) ELSE self
         IN  IF Failed(a) THEN a
             ELSE IF a.state = <<>>
             THEN Raise(a, InternalError("Bad exit_sequence state"))
             ELSE LET top == Last(a.state)
                      b == [a EXCEPT !.state = Front(@)]
                  IN  IF top.s = "Sequence"
                      THEN debug_assert(b, top.idx = top.len, "exit_sequence: pos != len")
                      ELSE Raise(b, InternalError("Bad exit_sequence state"))

(* QueryExecutor::enter_map *)
enter_map(self) ==
    IF Failed(self) THEN self
    ELSE LET a == IF is_match(self)
                  THEN [self EXCEPT !.output = Append(@, Frame("Map"))]
                  ELSE self
         IN  [a EXCEPT !.state = Append(@, StartMap)]

(* an exit_map that leaves the map's frame on output *)
exit_map_keeping_frame(self) ==
    IF Failed(self) THEN self
    ELSE IF self.state = <<>>
    THEN debug_assert(self, FALSE, "exit_map: popped None")
    ELSE debug_assert([self EXCEPT !.state = Front(@)],
                      Last(self.state) = StartMap, "exit_map: top is not StartMap")

(* QueryExecutor::exit_map *)
exit_map(self) ==
    IF Failed(self) THEN self
    ELSE LET a == IF is_match(self) /\ Len(self.output) > 1 THEN pop_and_push(self) ELSE self
         IN  IF Failed(a) THEN a
             ELSE IF a.state = <<>>
             THEN debug_assert(a, FALSE, "exit_map: popped None")
             ELSE debug_assert([a EXCEPT !.state = Front(@)],
                               Last(a.state) = StartMap, "exit_map: top is not StartMap")

(* QueryExecutor::enter_map_key / exit_map_key *)
enter_map_key(self) ==
    IF Failed(self) THEN self ELSE [self EXCEPT !.state = Append(@, MapKey)]
exit_map_key(self) ==
    IF Failed(self) THEN self
    ELSE IF self.state # <<>> /\ Last(self.state).s = "MapKeyStr" THEN self
    ELSE Raise(self, InternalError("Map key not a simple String!"))

(* QueryExecutor::enter_map_value / exit_map_value *)
enter_map_value(self) ==
    IF Failed(self) THEN self
    ELSE IF self.state # <<>> /\ Last(self.state).s = "MapKeyStr"
    THEN [self EXCEPT !.state = Append(@, MapValue)]
    ELSE Raise(self, Panic("enter_map_value"))
pop_state(self) == [self EXCEPT !.state = IF @ = <<>> THEN @ ELSE Front(@)]
exit_map_value(self) ==
    IF Failed(self) THEN self
    ELSE IF self.state = <<>> \/ Last(self.state).s # "MapValue"
    THEN Raise(pop_state(self), InternalError("Expected MapValue state"))
    ELSE LET a == pop_state(self)
         IN  IF a.state = <<>> \/ Last(a.state).s # "MapKeyStr"
             THEN Raise(pop_state(a), InternalError("Expected MapKeyStr state"))
             ELSE LET b == exit_name(pop_state(a), TRUE, Last(a.state).name)
                  IN  IF Failed(b) THEN b
                      ELSE IF b.state = <<>> \/ Last(b.state).s # "MapKey"
                      THEN Raise(pop_state(b), InternalError("Expected MapKey state"))
                      ELSE pop_state(b)

(* Serializer::serialize_str *)
(* the string passed over without a look at the state *)
skip_str(self, v) == self
serialize_str_body(self, v) ==
    IF Failed(self) THEN self
    ELSE IF self.state = <<>> THEN Raise(self, InternalError("&str value with no state!"))
    ELSE IF Last(self.state).s = "MapKey"
    THEN must_enter_name([self EXCEPT !.state = Append(@, MapKeyStr(v.name))], v.name)
    ELSE IF Last(self.state).s = "MapKeyStr"
    THEN Raise(self, InternalError("Shouldn't see multiple str for the same key!"))
    ELSE possible_result(self, v)

(* QueryExecutor::get_result: Option<JSON> as [some, val] *)
None == [some |-> FALSE, val |-> JNull]
Some(x) == [some |-> TRUE, val |-> x]
get(s) == IF Len(s) > 0 THEN Some(s[1]) ELSE None
get_result(self) ==
    IF self.output[1].kind = "Map" THEN get(self.output[1].map_values)
    ELSE get(self.output[1].list_items)

(***************************************************************************)
(* The calls still to come.  The document's Serialize impl makes the calls *)
(* of the traversal protocol in order (serde's data model: a sequence is   *)
(* serialize_seq, one serialize_element per item, end; and so on); a       *)
(* handler that serializes a nested value resumes after it ("*_return").   *)
(***************************************************************************)
Op(o, d, nm, i) == [op |-> o, d |-> d, name |-> nm, index |-> i]
Call(o) == Op(o, DUnit, <<>>, 0)
Value(d) == Op("value", d, <<>>, 0)

SeqCalls(d) ==
    [i \in 1..Len(d.items) |-> Op("element", d.items[i], <<>>, i - 1)] \o <<Call("seq_end")>>
TupleVariantCalls(d) ==
    [i \in 1..Len(d.items) |-> Op("element", d.items[i], <<>>, i - 1)]
        \o <<Op("tuple_variant_end", DUnit, d.name, 0)>>
MapCalls(d) ==
    [i \in 1..(2 * Len(d.items)) |->
        IF i % 2 = 1 THEN Op("key", d.keys[(i + 1) \div 2], <<>>, 0)
        ELSE Op("map_value", d.items[i \div 2], d.keys[i \div 2].name, 0)]
        \o <<Call("map_end")>>
StructCalls(d) ==
    [i \in 1..Len(d.items) |-> Op("field", d.items[i], d.fields[i], 0)] \o <<Call("map_end")>>
StructVariantCalls(d) ==
    [i \in 1..Len(d.items) |-> Op("field", d.items[i], d.fields[i], 0)]
        \o <<Op("struct_variant_end", DUnit, d.name, 0)>>

Self == [query |-> query, debug |-> debug, current_path |-> current_path, state |-> state,
         output |-> output, err |-> OkS, ret |-> FALSE, idx |-> 0]

Ok(opt) == [tag |-> "Ok", some |-> opt.some, val |-> opt.val, msg |-> ""]
Err(e) == [tag |-> e.tag, some |-> FALSE, val |-> JNull, msg |-> e.msg]
NoResult == [tag |-> "Running", some |-> FALSE, val |-> JNull, msg |-> ""]

(* The `?` after every nested serialize and handler call: the error leaves *)
(* every pending call behind and is what execute returns.                  *)
(* the pending calls kept: the traversal goes on after the error *)
resume(rest) == rest
unwind(rest) == <<>>

(* the document hands over, as a map key, a value that is no string *)
Handed ==
    IF /\ todo # <<>> /\ Head(todo).op = "value"
       /\ state # <<>> /\ Last(state).s = "MapKey"
       /\ Head(todo).d.kind \notin {"str", "unit_variant", "newtype_struct"}
    THEN {"non_string_key"} ELSE {}

(* A callback (or the rest of one, after its nested value) returns s, and  *)
(* `calls` are the calls still to come if it returned Ok.                  *)
Return(s, calls, callback) ==
    /\ current_path' = s.current_path
    /\ state' = s.state
    /\ output' = s.output
    /\ ncalls' = ncalls + callback
    /\ events' = events \cup Handed
    /\ IF s.err.tag = "Ok"
       THEN /\ todo' = calls
            /\ UNCHANGED <<pc, result, first_err>>
       ELSE LET left == IF s.err.tag = "Panic" THEN <<>> ELSE unwind(calls)
            IN  /\ todo' = left
                /\ first_err' = IF s.err.tag # "Panic" /\ first_err.tag = "Ok"
                                THEN s.err ELSE first_err
                /\ IF left = <<>>
                   THEN pc' = "done" /\ result' = Err(s.err)
                   ELSE UNCHANGED <<pc, result>>
    /\ UNCHANGED <<doc, query, debug, previous, nstep>>
    /\ UNCHANGED parse_vars

Running(o) == pc = "run" /\ todo # <<>> /\ Head(todo).op = o
Serializing(kinds) == Running("value") /\ Head(todo).d.kind \in kinds

(***************************************************************************)
(* JSONQuery::execute.                                                     *)
(***************************************************************************)
(* an executor put together from what the last one left in place *)
reused(q) ==
    [query |-> q, current_path |-> current_path, state |-> state,
     output |-> IF output = <<>> THEN <<RootFrame>> ELSE output]

(* QueryExecutor::new *)
new(q) == [query |-> q, current_path |-> <<>>, state |-> <<>>, output |-> <<RootFrame>>]

(* QueryExecutor::new(self)?, then target.serialize(&mut runner) begins *)
execute ==
    /\ pc = "new"
    /\ pc' = "run"
    /\ LET runner == new(query)
       IN  /\ current_path' = runner.current_path
           /\ state' = runner.state
           /\ output' = runner.output
    /\ todo' = <<Value(doc)>>
    /\ UNCHANGED <<doc, query, debug, result, ncalls, first_err, events, previous, nstep>>
    /\ UNCHANGED parse_vars

(* target.serialize returned Ok: Ok(runner.get_result()) *)
execute_return ==
    /\ pc = "run" /\ todo = <<>>
    /\ LET a == debug_assert(Self, Len(output) = 1, "get_result: output.len() != 1")
           b == IF output = <<>> THEN Raise(a, Panic("index out of bounds")) ELSE a
       IN  /\ result' = IF Failed(b) THEN Err(b.err) ELSE Ok(get_result(b))
           /\ pc' = "done"
    /\ UNCHANGED <<doc, query, debug, current_path, state, output, todo, ncalls, first_err,
                   events, previous, nstep>>
    /\ UNCHANGED parse_vars

(* The caller, holding the result of one execute, calls execute once more  *)
(* with the same query and the same document.  The first call's runner was *)
(* dropped when that call returned; nothing is done to its memory.         *)
execute_again ==
    /\ pc = "done" /\ previous = NoResult
    /\ previous' = result
    /\ pc' = "new"
    /\ result' = NoResult
    /\ todo' = <<>>
    /\ ncalls' = 0 /\ first_err' = OkS /\ events' = {}
    /\ UNCHANGED <<doc, query, debug, current_path, state, output, nstep>>
    /\ UNCHANGED parse_vars

(***************************************************************************)
(* impl serde::Serializer for &mut QueryExecutor.                          *)
(***************************************************************************)
(* serialize_bool, _i8 .. _u64, _f32, _f64, _char: self.possible_result(&v) *)
serialize_i32 ==
    /\ Serializing({"i32", "char"})
    /\ Return(possible_result(Self, Head(todo).d), Tail(todo), 1)

serialize_str ==
    /\ Serializing({"str"})
    /\ Return(serialize_str_body(Self, Head(todo).d), Tail(todo), 1)

(* serialize_none, serialize_unit, serialize_unit_struct *)
serialize_unit ==
    /\ Serializing({"unit", "none"})
    /\ Return(possible_result(Self, DUnit), Tail(todo), 1)

(* serialize_unit_variant: self.serialize_str(variant)? *)
serialize_unit_variant ==
    /\ Serializing({"unit_variant"})
    /\ Return(serialize_str_body(Self, DStr(Head(todo).d.name)), Tail(todo), 1)

(* the wrapper's name entered as a variant's case name is *)
enter_wrapper(self, name) == must_enter_name(self, name)

(* serialize_newtype_struct(_name, value), serialize_some(value): the      *)
(* executor as it is when value.serialize(self) is called                  *)
newtype_struct(self, name) == self

(* serialize_newtype_struct, serialize_some: value.serialize(self) *)
serialize_newtype_struct ==
    /\ Serializing({"newtype_struct", "some"})
    /\ Return(newtype_struct(Self, Head(todo).d.name),
              <<Value(Head(todo).d.items[1])>> \o Tail(todo), 1)

serialize_newtype_variant ==
    /\ Serializing({"newtype_variant"})
    /\ LET d == Head(todo).d
           a == enter_name(Self, d.name)
       IN  Return(a, IF a.ret
                     THEN <<Value(d.items[1]), Op("newtype_variant_return", DUnit, d.name, 0)>>
                              \o Tail(todo)
                     ELSE Tail(todo), 1)

(* serialize_newtype_variant after value.serialize: self.exit_name(Some(variant)) *)
serialize_newtype_variant_return ==
    /\ Running("newtype_variant_return")
    /\ Return(exit_name(Self, TRUE, Head(todo).name), Tail(todo), 0)

(* serialize_seq, serialize_tuple, serialize_tuple_struct *)
serialize_seq ==
    /\ Serializing({"seq"})
    /\ LET d == Head(todo).d
       IN  Return(enter_sequence(Self, d.len), SeqCalls(d) \o Tail(todo), 1)

serialize_tuple_variant ==
    /\ Serializing({"tuple_variant"})
    /\ LET d == Head(todo).d
       IN  Return(enter_sequence(must_enter_name(enter_map(Self), d.name), d.len),
                  TupleVariantCalls(d) \o Tail(todo), 1)

(* serialize_map, serialize_struct *)
serialize_map ==
    /\ Serializing({"map", "struct"})
    /\ LET d == Head(todo).d
       IN  Return(enter_map(Self),
                  (IF d.kind = "map" THEN MapCalls(d) ELSE StructCalls(d)) \o Tail(todo), 1)

serialize_struct_variant ==
    /\ Serializing({"struct_variant"})
    /\ LET d == Head(todo).d
       IN  Return(must_enter_name(enter_map(Self), d.name),
                  StructVariantCalls(d) \o Tail(todo), 1)

(* A value whose Serialize impl fails: Err(S::Error::custom(msg)) *)
custom ==
    /\ Serializing({"fail"})
    /\ Return(Raise(Self, Serialization("custom")), Tail(todo), 1)

(***************************************************************************)
(* SerializeSeq, SerializeTuple, SerializeTupleStruct, SerializeTupleVariant *)
(***************************************************************************)
(* serialize_element / serialize_field: self.sequence_element(value) *)
sequence_element ==
    /\ Running("element")
    /\ LET a == sequence_element_enter(Self)
       IN  Return(a, IF a.ret
                     THEN <<Value(Head(todo).d), Op("element_return", DUnit, <<>>, a.idx)>>
                              \o Tail(todo)
                     ELSE Tail(todo), 1)

(* sequence_element after value.serialize: self.exit_index(index) *)
sequence_element_return ==
    /\ Running("element_return")
    /\ Return(exit_index(Self, Head(todo).index), Tail(todo), 0)

(* SerializeSeq::end, SerializeTuple::end, SerializeTupleStruct::end *)
SerializeSeq_end ==
    /\ Running("seq_end")
    /\ Return(exit_sequence(Self), Tail(todo), 1)

SerializeTupleVariant_end ==
    /\ Running("tuple_variant_end")
    /\ Return(exit_name(exit_map(exit_sequence(Self)), FALSE, <<>>), Tail(todo), 1)

(***************************************************************************)
(* SerializeMap, SerializeStruct, SerializeStructVariant                   *)
(***************************************************************************)
SerializeMap_serialize_key ==
    /\ Running("key")
    /\ Return(enter_map_key(Self),
              <<Value(Head(todo).d), Op("key_return", Head(todo).d, <<>>, 0)>> \o Tail(todo), 1)

(* serialize_key after key.serialize: self.exit_map_key() *)
SerializeMap_serialize_key_return ==
    /\ Running("key_return")
    /\ Return(exit_map_key(Self), Tail(todo), 0)

SerializeMap_serialize_value ==
    /\ Running("map_value")
    /\ Return(enter_map_value(Self),
              <<Value(Head(todo).d), Op("map_value_return", DUnit, Head(todo).name, 0)>>
                  \o Tail(todo), 1)

(* serialize_value after value.serialize: self.exit_map_value() *)
SerializeMap_serialize_value_return ==
    /\ Running("map_value_return")
    /\ Return(exit_map_value(Self), Tail(todo), 0)

(* SerializeStruct::serialize_field, SerializeStructVariant::serialize_field *)
SerializeStruct_serialize_field ==
    /\ Running("field")
    /\ LET a == enter_name(Self, Head(todo).name)
       IN  Return(a, IF a.ret
                     THEN <<Value(Head(todo).d), Op("field_return", DUnit, Head(todo).name, 0)>>
                              \o Tail(todo)
                     ELSE Tail(todo), 1)

(* serialize_field after value.serialize: self.exit_name(Some(key)) *)
SerializeStruct_serialize_field_return ==
    /\ Running("field_return")
    /\ Return(exit_name(Self, TRUE, Head(todo).name), Tail(todo), 0)

(* SerializeMap::end, SerializeStruct::end *)
SerializeMap_end ==
    /\ Running("map_end")
    /\ Return(exit_map(Self), Tail(todo), 1)

SerializeStructVariant_end ==
    /\ Running("struct_variant_end")
    /\ Return(exit_name(exit_map(Self), FALSE, <<>>), Tail(todo), 1)

(***************************************************************************)
(* The inputs: every document of at most MaxNodes nodes whose containers   *)
(* hold at most MaxLen members, and every query of at most MaxQueryLen     *)
(* elements.                                                               *)
(***************************************************************************)
NA == <<"a">>
NB == <<"b">>
NameOrder == <<NA, NB, <<"c">>, <<"d">>>>
FieldNames(k) == SubSeq(NameOrder, 1, k)
StrKeys(k) == [i \in 1..k |-> DStr(NameOrder[i])]
(* the keys a map of k entries offers: distinct names, the same name k     *)
(* times, or distinct names with a number as the last key                  *)
KeyLists(k) ==
    {StrKeys(k), [i \in 1..k |-> DStr(NA)], [StrKeys(k) EXCEPT ![k] = DI32(1)]}

Leaves == {DI32(1), DStr(<<"s">>), DUnit, DUnitVariant(NB), DFail}
EmptyContainers ==
    {DSeq(<<>>), DStruct(<<>>, <<>>), DMap(<<>>, <<>>), DTupleVariant(NB, <<>>),
     DStructVariant(NB, <<>>, <<>>)}
Containers(f) ==
    LET k == Len(f)
    IN  {DSeq(f), DStruct(FieldNames(k), f), DTupleVariant(NB, f),
         DStructVariant(NB, FieldNames(k), f)}
        \cup {DMap(ks, f) : ks \in KeyLists(k)}
        \cup (IF k = 1 THEN {DNewtypeVariant(NB, f[1]), DNewtypeStruct(f[1])} ELSE {})

RECURSIVE DocsOfSize(_), Forests(_, _)
Forests(n, k) ==
    IF k = 1 THEN {<<d>> : d \in DocsOfSize(n)}
    ELSE UNION {{<<d>> \o f : d \in DocsOfSize(m), f \in Forests(n - m, k - 1)} :
                    m \in 1..(n - k + 1)}
DocsOfSize(n) ==
    IF n = 1 THEN Leaves \cup EmptyContainers
    ELSE UNION {UNION {Containers(f) : f \in Forests(n - 1, k)} : k \in 1..Min(MaxLen, n - 1)}
Docs == UNION {DocsOfSize(n) : n \in 1..MaxNodes}

QElems == {Field(NA), Field(NB), ArrayItem(0), ArrayItem(1)}
RECURSIVE SeqsOfLen(_, _)
SeqsOfLen(S, n) ==
    IF n = 0 THEN {<<>>} ELSE {Append(q, e) : q \in SeqsOfLen(S, n - 1), e \in S}
Queries == UNION {SeqsOfLen(QElems, n) : n \in 0..MaxQueryLen}

(***************************************************************************)
(* query.rs: Display for QueryElement and for JSONQuery.                   *)
(***************************************************************************)
DigitChars == <<"0", "1", "2", "3", "4", "5", "6", "7", "8", "9">>

(* "{}" of a usize: its decimal digits, most significant first *)
RECURSIVE usize_to_string(_)
usize_to_string(n) ==
    IF n < 10 THEN <<DigitChars[n + 1]>>
    ELSE Append(usize_to_string(n \div 10), DigitChars[(n % 10) + 1])

(* the element without its leading '.' or its brackets *)
fmt_bare(e) == IF e.tag = "Field" THEN e.name ELSE usize_to_string(e.index)

QueryElement_fmt(e) ==
    IF e.tag = "Field" THEN <<".">> \o e.name
    ELSE <<"[">> \o usize_to_string(e.index) \o <<"]">>

RECURSIVE JSONQuery_fmt(_)
JSONQuery_fmt(elements) ==
    IF elements = <<>> THEN <<>>
    ELSE QueryElement_fmt(Head(elements)) \o JSONQuery_fmt(Tail(elements))

(***************************************************************************)
(* query_parser.rs: QueryParseErr and Parser.  The parser is a value       *)
(* [data, position]; a method returns it changed, with `err` (POk unless   *)
(* it returned Err) and what it returned.                                  *)
(***************************************************************************)
PErr(tag, pos, ch, msg) == [tag |-> tag, pos |-> pos, ch |-> ch, msg |-> msg]
POk == PErr("Ok", 0, "", "")
(* the error with a position one off *)
BadCharacterAfter(i) == PErr("BadCharacter", i + 1, "", "")
MissingNumberAtBracket(i) == PErr("MissingNumber", i - 1, "", "")
BadIndexAtBracket(i, m) == PErr("BadIndex", i - 1, "", m)
BadCharacter(i) == PErr("BadCharacter", i, "", "")
MissingField == PErr("MissingField", 0, "", "")
MissingNumber(i) == PErr("MissingNumber", i, "", "")
BadArray(i) == PErr("BadArray", i, "", "")
BadField(i) == PErr("BadField", i, "", "")
UnexpectedEOF(c) == PErr("UnexpectedEOF", 0, c, "")
Unexpected(i, c) == PErr("Unexpected", i, c, "")
BadIndex(i, m) == PErr("BadIndex", i, "", m)

Whitespace == {" ", "\t", "\n"}
is_digit(ch) == \E i \in 1..10 : DigitChars[i] = ch
is_whitespace(ch) == ch \in Whitespace
DigitValue(ch) == (CHOOSE i \in 1..10 : DigitChars[i] = ch) - 1

(* the last digit alone *)
last_digit(digits) == DigitValue(Last(digits))

(* the value of digits.parse::<usize>() for a run of decimal digits that   *)
(* is in range (leading zeros count for nothing)                           *)
RECURSIVE parse_usize(_)
parse_usize(digits) ==
    IF digits = <<>> THEN 0
    ELSE 10 * parse_usize(Front(digits)) + DigitValue(Last(digits))

(* usize::MAX of a 64-bit target, in decimal; parse::<usize>() returns     *)
(* Err(PosOverflow) for a run of digits that denotes a greater number      *)
UsizeMaxDigits ==
    <<"1", "8", "4", "4", "6", "7", "4", "4", "0", "7",
      "3", "7", "0", "9", "5", "5", "1", "6", "1", "5">>
RECURSIVE StripZeros(_)
StripZeros(digits) ==
    IF Len(digits) > 1 /\ Head(digits) = "0" THEN StripZeros(Tail(digits)) ELSE digits
(* a > b for two runs of digits of the same length *)
RECURSIVE DigitsGreater(_, _)
DigitsGreater(a, b) ==
    IF a = <<>> THEN FALSE
    ELSE IF Head(a) # Head(b) THEN DigitValue(Head(a)) > DigitValue(Head(b))
    ELSE DigitsGreater(Tail(a), Tail(b))
PosOverflow(digits) ==
    LET d == StripZeros(digits)
    IN  \/ Len(d) > Len(UsizeMaxDigits)
        \/ Len(d) = Len(UsizeMaxDigits) /\ DigitsGreater(d, UsizeMaxDigits)
TooLarge == "number too large to fit in target type"

NoChar == [some |-> FALSE, ch |-> ""]
SomeChar(c) == [some |-> TRUE, ch |-> c]
NoElem == ArrayItem(0)

Parser_from(input) == [data |-> input, position |-> 0]
peek(p) == IF p.position < Len(p.data) THEN SomeChar(p.data[p.position + 1]) ELSE NoChar
advance(p) == [p |-> [p EXCEPT !.position = @ + 1], found |-> peek(p)]
consume(p, expected) ==
    LET a == advance(p)
    IN  [p |-> a.p,
         err |-> IF ~a.found.some THEN UnexpectedEOF(expected)
                 ELSE IF a.found.ch = expected THEN POk
                 ELSE Unexpected(a.p.position - 1, expected)]

(* the loop of read_array: `while let Some(ch) = self.advance()` *)
RECURSIVE read_array_loop(_, _)
read_array_loop(p, digits) ==
    LET a == advance(p)
    IN  IF ~a.found.some THEN [p |-> a.p, err |-> POk, digits |-> digits]
        ELSE IF a.found.ch = "]" THEN [p |-> a.p, err |-> POk, digits |-> digits]
        ELSE IF is_digit(a.found.ch) THEN read_array_loop(a.p, Append(digits, a.found.ch))
        ELSE [p |-> a.p, err |-> BadArray(a.p.position - 1), digits |-> digits]

read_array(p) ==
    LET c == consume(p, "[")
        start == c.p.position
        l == read_array_loop(c.p, <<>>)
    IN  IF c.err.tag # "Ok" THEN [p |-> c.p, err |-> c.err, elem |-> NoElem]
        ELSE IF l.err.tag # "Ok" THEN [p |-> l.p, err |-> l.err, elem |-> NoElem]
        ELSE IF l.digits = <<>> THEN [p |-> l.p, err |-> MissingNumber(start), elem |-> NoElem]
        ELSE IF PosOverflow(l.digits)
        THEN [p |-> l.p, err |-> BadIndex(start, TooLarge), elem |-> NoElem]
        ELSE [p |-> l.p, err |-> POk, elem |-> ArrayItem(parse_usize(l.digits))]

(* the loop of read_field: `while let Some(ch) = self.peek()` *)
RECURSIVE read_field_loop(_, _)
read_field_loop(p, id) ==
    LET f == peek(p)
    IN  IF ~f.some THEN [p |-> p, err |-> POk, id |-> id]
        ELSE IF f.ch = "." \/ f.ch = "[" THEN [p |-> p, err |-> POk, id |-> id]
        ELSE IF is_whitespace(f.ch) THEN [p |-> p, err |-> BadField(p.position - 1), id |-> id]
        ELSE LET c == consume(p, f.ch)
             IN  IF c.err.tag # "Ok" THEN [p |-> c.p, err |-> c.err, id |-> id]
                 ELSE read_field_loop(c.p, Append(id, f.ch))

(* read_field without its check for an empty name *)
read_field_any(p) ==
    LET c == consume(p, ".")
        l == read_field_loop(c.p, <<>>)
    IN  [p |-> l.p, err |-> IF c.err.tag # "Ok" THEN c.err ELSE l.err, elem |-> Field(l.id)]

read_field(p) ==
    LET c == consume(p, ".")
        l == read_field_loop(c.p, <<>>)
    IN  IF c.err.tag # "Ok" THEN [p |-> c.p, err |-> c.err, elem |-> NoElem]
        ELSE IF l.err.tag # "Ok" THEN [p |-> l.p, err |-> l.err, elem |-> NoElem]
        ELSE IF l.id = <<>> THEN [p |-> l.p, err |-> MissingField, elem |-> NoElem]
        ELSE [p |-> l.p, err |-> POk, elem |-> Field(l.id)]

(* a next that hands out its element and leaves the parser where it was *)
next_in_place(p) ==
    LET f == peek(p)
    IN  IF ~f.some THEN [p |-> p, err |-> POk, some |-> FALSE, elem |-> NoElem]
        ELSE IF f.ch = "["
        THEN LET r == read_array(p)
             IN  [p |-> p, err |-> r.err, some |-> r.err.tag = "Ok", elem |-> r.elem]
        ELSE IF f.ch = "."
        THEN LET r == read_field(p)
             IN  [p |-> p, err |-> r.err, some |-> r.err.tag = "Ok", elem |-> r.elem]
        ELSE [p |-> p, err |-> BadCharacter(p.position), some |-> FALSE, elem |-> NoElem]

(* Parser::next: Ok(Some(elem)), Ok(None) (some = FALSE) or Err(err) *)
next(p) ==
    LET f == peek(p)
    IN  IF ~f.some THEN [p |-> p, err |-> POk, some |-> FALSE, elem |-> NoElem]
        ELSE IF f.ch = "["
        THEN LET r == read_array(p)
             IN  [p |-> r.p, err |-> r.err, some |-> r.err.tag = "Ok", elem |-> r.elem]
        ELSE IF f.ch = "."
        THEN LET r == read_field(p)
             IN  [p |-> r.p, err |-> r.err, some |-> r.err.tag = "Ok", elem |-> r.elem]
        ELSE [p |-> p, err |-> BadCharacter(p.position), some |-> FALSE, elem |-> NoElem]

(* Result<Vec<QueryElement>, QueryParseErr> *)
PResult(e, elements) == [tag |-> e.tag, err |-> e, elements |-> elements]
PNoResult == [tag |-> "Running", err |-> POk, elements |-> <<>>]

(***************************************************************************)
(* What is parsed: the Display text of a JSONQuery, or any text.  A field  *)
(* name is any string of at most MaxNameLen characters of NameChars, or    *)
(* one of LongNames; a text is any string of at most MaxTextLen characters *)
(* of TextChars.                                                           *)
(***************************************************************************)
MaxNameLen == 2
MaxTextLen == 3
NameChars == {"a", ".", "[", " ", "0"}
TextChars == {"a", ".", "[", "]", " ", "0", "1"}
LongNames == {<<"a", ".", "b">>, <<"a", "[", "0", "]">>, <<"a", "]", "b">>}
Names == UNION {SeqsOfLen(NameChars, n) : n \in 0..MaxNameLen} \cup LongNames
Indices == {0, 1, 10}
PElems == {Field(n) : n \in Names} \cup {ArrayItem(i) : i \in Indices}
PQueries == {<<>>} \cup {<<e>> : e \in PElems} \cup {<<e, f>> : e \in PElems, f \in PElems}
Texts == UNION {SeqsOfLen(TextChars, n) : n \in 0..MaxTextLen}

(* longer texts: up to MaxPieces of the Pieces, one after the other *)
MaxPieces == 3
Pieces ==
    { <<".", "a">>, <<".", "b", "]">>, <<".">>, <<"[", "0", "]">>, <<"[", "0", "7", "]">>,
      <<"[", "1", "2">>, <<"[">>, <<"[", "]">>, <<" ">>, <<"a">>,
      <<"[">> \o UsizeMaxDigits \o <<"0", "]">>,
      <<"[">> \o Front(UsizeMaxDigits) \o <<"6", "]">>,
      <<"[", "0", "0", "0", "0", "0", "0", "0", "0", "0", "0", "0", "0", "0", "0", "0",
        "0", "0", "0", "0", "0", "0", "0", "0", "1", "]">> }
RECURSIVE Concats(_)
Concats(n) ==
    IF n = 0 THEN {<<>>} ELSE {t \o piece : t \in Concats(n - 1), piece \in Pieces}
PieceTexts == UNION {Concats(n) : n \in 0..MaxPieces}
Inputs == Texts \cup PieceTexts

NotRendered == [some |-> FALSE, q |-> <<>>]
Rendered(q) == [some |-> TRUE, q |-> q]

(* JSONQuery::parse(input): parse_query makes its Parser from the input *)
parse_query ==
    /\ ppc = "idle"
    /\ \E input \in (IF rendered.some THEN {JSONQuery_fmt(rendered.q)} ELSE Inputs) :
           LET parser == Parser_from(input)
           IN  data' = parser.data /\ position' = parser.position
    /\ parsed' = <<>>
    /\ ppc' = "run"
    /\ UNCHANGED <<presult, nnext, rendered>>
    /\ UNCHANGED exec_vars

(* one turn of `while let Some(it) = parser.next()? { output.push(it) }`,  *)
(* and parse_query's return when next returned Err or Ok(None)             *)
Parser_next ==
    /\ ppc = "run"
    /\ LET r == next([data |-> data, position |-> position])
       IN  /\ position' = r.p.position
           /\ IF r.err.tag # "Ok"
              THEN presult' = PResult(r.err, <<>>) /\ ppc' = "done" /\ UNCHANGED parsed
              ELSE IF ~r.some
              THEN presult' = PResult(POk, parsed) /\ ppc' = "done" /\ UNCHANGED parsed
              ELSE parsed' = Append(parsed, r.elem) /\ UNCHANGED <<presult, ppc>>
    /\ nnext' = nnext + 1
    /\ UNCHANGED <<data, rendered>>
    /\ UNCHANGED exec_vars

ParserIdle ==
    /\ data = <<>> /\ position = 0 /\ parsed = <<>> /\ ppc = "idle" /\ nnext = 0
    /\ presult = PNoResult /\ rendered = NotRendered

ExecutorIdle ==
    /\ doc = DUnit /\ query = <<>> /\ debug = FALSE
    /\ current_path = <<>> /\ state = <<>> /\ output = <<>> /\ todo = <<>>
    /\ pc = "new" /\ result = NoResult /\ ncalls = 0 /\ first_err = OkS /\ events = {}
    /\ previous = NoResult /\ nstep = NoStep

InitParse ==
    /\ ExecutorIdle
    /\ data = <<>> /\ position = 0 /\ parsed = <<>> /\ ppc = "idle" /\ nnext = 0
    /\ presult = PNoResult
    /\ rendered \in {NotRendered} \cup {Rendered(q) : q \in PQueries}

NextParse ==
    \/ parse_query
    \/ Parser_next

SpecParse == InitParse /\ [][NextParse]_vars

(* parse_query is one sequential loop: while next can be called it is      *)
(* called.  This is WF_vars(Parser_next) with ENABLED <<Parser_next>>_vars *)
(* written out: the guard of Parser_next, every call of which counts in    *)
(* nnext.                                                                  *)
SpecParseLive ==
    /\ InitParse /\ [][NextParse]_vars
    /\ ([]<>(ppc # "run") \/ []<><<Parser_next>>_vars)

Init ==
    /\ doc \in Docs
    /\ query \in Queries
    /\ debug \in BOOLEAN
    /\ current_path = <<>> /\ state = <<>> /\ output = <<>> /\ todo = <<>>
    /\ pc = "new" /\ result = NoResult /\ ncalls = 0 /\ first_err = OkS /\ events = {}
    /\ previous = NoResult /\ nstep = NoStep
    /\ ParserIdle

Next ==
    \/ execute
    \/ execute_return
    \/ serialize_i32
    \/ serialize_str
    \/ serialize_unit
    \/ serialize_unit_variant
    \/ serialize_newtype_struct
    \/ serialize_newtype_variant
    \/ serialize_newtype_variant_return
    \/ serialize_seq
    \/ serialize_tuple_variant
    \/ serialize_map
    \/ serialize_struct_variant
    \/ custom
    \/ sequence_element
    \/ sequence_element_return
    \/ SerializeSeq_end
    \/ SerializeTupleVariant_end
    \/ SerializeMap_serialize_key
    \/ SerializeMap_serialize_key_return
    \/ SerializeMap_serialize_value
    \/ SerializeMap_serialize_value_return
    \/ SerializeStruct_serialize_field
    \/ SerializeStruct_serialize_field_return
    \/ SerializeMap_end
    \/ SerializeStructVariant_end

Spec == Init /\ [][Next]_vars

(***************************************************************************)
(* More documents: sequences that announce a length other than the number  *)
(* of elements they go on to offer, or no length at all (at the root, or   *)
(* as the one member of a record, a sequence or a map), and the documents  *)
(* above with None for the unit value and Some(x) for the newtype struct.  *)
(***************************************************************************)
Announced(d) ==
    {DSeqLen(d.items, l) : l \in {Len(d.items) + 1, Len(d.items) - 1, NoLen}}
SeqsOfSize(n) == {d \in DocsOfSize(n) : d.kind = "seq"}
LenSeqs(n) == UNION {Announced(d) : d \in SeqsOfSize(n)}
LenDocs ==
    UNION {LenSeqs(n) : n \in 1..MaxNodes}
    \cup UNION {{DStruct(<<NA>>, <<w>>), DSeq(<<w>>), DMap(StrKeys(1), <<w>>)} :
                  w \in UNION {LenSeqs(n) : n \in 1..(MaxNodes - 1)}}

RECURSIVE AsOption(_)
AsOption(d) ==
    [d EXCEPT !.kind = IF @ = "unit" THEN "none"
                       ELSE IF @ = "newtype_struct" THEN "some" ELSE @,
              !.items = [i \in 1..Len(d.items) |-> AsOption(d.items[i])]]
OptDocs == {AsOption(d) : d \in Docs} \ Docs

(* the documents above with the name a for every newtype struct *)
RECURSIVE Named(_)
Named(d) ==
    [d EXCEPT !.name = IF d.kind = "newtype_struct" THEN NA ELSE @,
              !.items = [i \in 1..Len(d.items) |-> Named(d.items[i])]]
NamedDocs == {Named(d) : d \in Docs} \ Docs

InitWide ==
    /\ doc \in Docs \cup LenDocs \cup OptDocs \cup NamedDocs
    /\ query \in Queries
    /\ debug \in BOOLEAN
    /\ current_path = <<>> /\ state = <<>> /\ output = <<>> /\ todo = <<>>
    /\ pc = "new" /\ result = NoResult /\ ncalls = 0 /\ first_err = OkS /\ events = {}
    /\ previous = NoResult /\ nstep = NoStep
    /\ ParserIdle

SpecWide == InitWide /\ [][Next]_vars

(***************************************************************************)
(* The same query run once more, on the document with every newtype struct *)
(* and every Some(x) replaced by the value it wraps.                       *)
(***************************************************************************)
Wrappers == {"newtype_struct", "some"}
RECURSIVE Unwrapped(_)
Unwrapped(d) ==
    IF d.kind \in Wrappers THEN Unwrapped(d.items[1])
    ELSE [d EXCEPT !.items = [i \in 1..Len(d.items) |-> Unwrapped(d.items[i])]]

execute_unwrapped ==
    /\ pc = "done" /\ previous = NoResult
    /\ Unwrapped(doc) # doc
    /\ previous' = result
    /\ doc' = Unwrapped(doc)
    /\ pc' = "new"
    /\ result' = NoResult
    /\ todo' = <<>>
    /\ ncalls' = 0 /\ first_err' = OkS /\ events' = {}
    /\ UNCHANGED <<query, debug, current_path, state, output, nstep>>
    /\ UNCHANGED parse_vars

NextUnwrapped ==
    \/ Next
    \/ execute_unwrapped

SpecUnwrapped == InitWide /\ [][NextUnwrapped]_vars

(***************************************************************************)
(* QueryExecutor::next_step on its own: an executor with any query and any *)
(* current_path of at most MaxPathLen elements, asked for its next step.    *)
(***************************************************************************)
MaxPathLen == 3
Paths == UNION {SeqsOfLen(QElems, n) : n \in 0..MaxPathLen}

InitStep ==
    /\ doc = DUnit /\ debug = FALSE
    /\ query \in Paths /\ current_path \in Paths
    /\ state = <<>> /\ output = <<RootFrame>> /\ todo = <<>>
    /\ pc = "new" /\ result = NoResult /\ ncalls = 0 /\ first_err = OkS /\ events = {}
    /\ previous = NoResult /\ nstep = NoStep
    /\ ParserIdle

QueryExecutor_next_step ==
    /\ nstep = NoStep
    /\ nstep' = next_step(Self)
    /\ UNCHANGED <<doc, query, debug, current_path, state, output, todo, pc, result, ncalls,
                   first_err, events, previous>>
    /\ UNCHANGED parse_vars

SpecStep == InitStep /\ [][QueryExecutor_next_step]_vars

(* Two calls of execute, one after the other. *)
NextTwice ==
    \/ Next
    \/ execute_again

SpecTwice == Init /\ [][NextTwice]_vars

(***************************************************************************)
(* What the claims are stated against: the generic JSON conversion of a    *)
(* document (serde_json::to_value), and the nodes of a document that a     *)
(* path addresses.                                                         *)
(***************************************************************************)
RECURSIVE DocToJSON(_)
DocToJSON(d) ==
    LET js == [i \in 1..Len(d.items) |-> DocToJSON(d.items[i])]
    IN  CASE d.kind \in PrimKinds -> to_value(d)
          [] d.kind = "unit_variant" -> JString(d.name)
          [] d.kind \in {"newtype_struct", "some"} -> js[1]
          [] d.kind = "newtype_variant" -> JObject(<<d.name>>, <<js[1]>>)
          [] d.kind = "seq" -> JArray(js)
          [] d.kind = "tuple_variant" -> JObject(<<d.name>>, <<JArray(js)>>)
          [] d.kind = "struct" -> JObject(d.fields, js)
          [] d.kind = "struct_variant" -> JObject(<<d.name>>, <<JObject(d.fields, js)>>)
          [] d.kind = "map" -> JObject([i \in 1..Len(d.keys) |-> d.keys[i].name], js)
          [] OTHER -> JNull

(* a document that serializes without error: no failing value, string keys *)
RECURSIVE Healthy(_)
Healthy(d) ==
    /\ d.kind # "fail"
    /\ \A i \in 1..Len(d.keys) : d.keys[i].kind = "str"
    /\ \A i \in 1..Len(d.items) : Healthy(d.items[i])

RECURSIVE HasKind(_, _)
HasKind(d, kinds) ==
    d.kind \in kinds \/ \E i \in 1..Len(d.items) : HasKind(d.items[i], kinds)
VariantKinds == {"unit_variant", "newtype_variant", "tuple_variant", "struct_variant"}

RECURSIVE Flatten(_)
Flatten(ss) == IF ss = <<>> THEN <<>> ELSE Head(ss) \o Flatten(Tail(ss))

(* the members of a node, in traversal order, each with the path element   *)
(* that leads to it; a variant has one member, its payload, under its case *)
(* name; a newtype struct is transparent                                   *)
RECURSIVE Members(_)
Members(d) ==
    CASE d.kind = "seq" -> [i \in 1..Len(d.items) |-> <<ArrayItem(i - 1), d.items[i]>>]
      [] d.kind = "struct" -> [i \in 1..Len(d.items) |-> <<Field(d.fields[i]), d.items[i]>>]
      [] d.kind = "map" -> [i \in 1..Len(d.items) |-> <<Field(d.keys[i].name), d.items[i]>>]
      [] d.kind = "newtype_variant" -> <<<<Field(d.name), d.items[1]>>>>
      [] d.kind = "tuple_variant" -> <<<<Field(d.name), DSeq(d.items)>>>>
      [] d.kind = "struct_variant" -> <<<<Field(d.name), DStruct(d.fields, d.items)>>>>
      [] d.kind \in {"newtype_struct", "some"} -> Members(d.items[1])
      [] OTHER -> <<>>

(* the nodes the path p addresses in d, in traversal order *)
RECURSIVE NodesAt(_, _)
NodesAt(d, p) ==
    IF p = <<>> THEN <<d>>
    ELSE LET ms == Members(d)
         IN  Flatten([i \in 1..Len(ms) |->
                        IF ms[i][1] = Head(p) THEN NodesAt(ms[i][2], Tail(p)) ELSE <<>>])

RECURSIVE Peel(_)
Peel(d) == IF d.kind \in {"newtype_struct", "some"} THEN Peel(d.items[1]) ELSE d

Done == pc = "done"
Returned(opt) == result = Ok(opt)
Target == NodesAt(doc, query)
ContainerKinds == {"seq", "struct", "map"}

(***************************************************************************)
(* C1: for a non-empty query that leads to a primitive leaf and addresses  *)
(* no other node of the document, execute returns Ok(Some(v)), v the value *)
(* of that leaf.                                                           *)
(***************************************************************************)
C1_LeafQueryReturnsLeaf ==
    (Done /\ Healthy(doc) /\ query # <<>> /\ Len(Target) = 1
          /\ Peel(Target[1]).kind \in PrimKinds)
        => Returned(Some(to_value(Peel(Target[1]))))

(* the case C1 is about, reached through a record field *)
C1_Witness ==
    /\ Done /\ Healthy(doc) /\ query # <<>> /\ Len(Target) = 1
    /\ Peel(Target[1]).kind \in PrimKinds
    /\ doc.kind = "struct"
    /\ Returned(Some(to_value(Peel(Target[1]))))

(***************************************************************************)
(* C2: for a non-empty query that addresses no node of the document,       *)
(* whatever the document's root shape, execute returns Ok(None).           *)
(***************************************************************************)
C2_MissingPathReturnsNone ==
    (Done /\ Healthy(doc) /\ query # <<>> /\ Target = <<>>) => Returned(None)

(***************************************************************************)
(* C3: in a document of records, maps with string keys (each key offered   *)
(* once), sequences and primitives, a non-empty query that addresses a     *)
(* container node returns that node's complete subtree: what navigating    *)
(* the query in the generic JSON conversion of the document yields.        *)
(***************************************************************************)
RECURSIVE JNav(_, _)
JNav(j, p) ==
    IF p = <<>> THEN Some(j)
    ELSE LET e == Head(p)
         IN  IF j.t = "Array" /\ e.tag = "ArrayItem" /\ e.index < Len(j.v)
             THEN JNav(j.v[e.index + 1], Tail(p))
             ELSE IF j.t = "Object" /\ e.tag = "Field" /\ e.name \in DOMAIN j.v
             THEN JNav(j.v[e.name], Tail(p))
             ELSE None

(* no map of the document offers a key twice *)
RECURSIVE DistinctKeys(_)
DistinctKeys(d) ==
    /\ \A i, j \in 1..Len(d.keys) : d.keys[i] = d.keys[j] => i = j
    /\ \A i \in 1..Len(d.items) : DistinctKeys(d.items[i])

PlainContainerQuery ==
    /\ Healthy(doc) /\ ~HasKind(doc, VariantKinds) /\ DistinctKeys(doc)
    /\ query # <<>> /\ Target # <<>>
    /\ Peel(Target[1]).kind \in ContainerKinds

C3_ContainerQueryReturnsSubtree ==
    (Done /\ PlainContainerQuery)
        => /\ Returned(Some(DocToJSON(Target[1])))
           /\ Returned(JNav(DocToJSON(doc), query))

(* a container that holds another container was returned *)
C3_Witness ==
    /\ Done /\ PlainContainerQuery /\ result.tag = "Ok"
    /\ \E i \in 1..Len(Peel(Target[1]).items) :
           Peel(Peel(Target[1]).items[i]).kind \in ContainerKinds

(***************************************************************************)
(* C4: the case name C of a variant with a payload at path P is one Field  *)
(* element: the query P.C returns the whole payload, and P.C.rest returns  *)
(* what rest addresses inside the payload.                                 *)
(***************************************************************************)
PayloadKinds == {"newtype_variant", "tuple_variant", "struct_variant"}
(* the k-th element of the query is the case name of a variant with a payload *)
ThroughVariant(k) ==
    LET at == NodesAt(doc, SubSeq(query, 1, k - 1))
    IN  /\ Len(at) = 1
        /\ Peel(at[1]).kind \in PayloadKinds
        /\ query[k] = Field(Peel(at[1]).name)

C4_CaseNameIsOneField ==
    (/\ Done /\ Healthy(doc) /\ query # <<>> /\ Len(Target) = 1
     /\ ~HasKind(Target[1], PayloadKinds)
     /\ \E k \in 1..Len(query) : ThroughVariant(k))
        => Returned(Some(DocToJSON(Target[1])))

(***************************************************************************)
(* C5: a unit variant at a path p that lies inside a record, map, sequence *)
(* or tuple/struct variant is a string: the query p returns Some(case      *)
(* name), and the query p.CaseName returns None.                           *)
(***************************************************************************)
FrameKinds == {"seq", "struct", "map", "tuple_variant", "struct_variant"}
Enclosed(p) ==
    \E k \in 0..(Len(p) - 1) :
        LET at == NodesAt(doc, SubSeq(p, 1, k))
        IN  Len(at) = 1 /\ Peel(at[1]).kind \in FrameKinds
UnitVariantAt(p) ==
    /\ p # <<>> /\ Len(NodesAt(doc, p)) = 1
    /\ Peel(NodesAt(doc, p)[1]).kind = "unit_variant"
    /\ Enclosed(p)
CaseNameAt(p) == Peel(NodesAt(doc, p)[1]).name

C5_UnitVariantIsString ==
    /\ (Done /\ Healthy(doc) /\ UnitVariantAt(query))
           => Returned(Some(JString(CaseNameAt(query))))
    /\ (/\ Done /\ Healthy(doc) /\ Len(query) >= 2 /\ UnitVariantAt(Front(query))
        /\ Last(query) = Field(CaseNameAt(Front(query))))
           => Returned(None)

C5_Witness ==
    /\ Done /\ Healthy(doc) /\ UnitVariantAt(query)
    /\ Returned(Some(JString(CaseNameAt(query))))

(***************************************************************************)
(* C6: execute with an empty query returns Err(EmptyQuery), and no         *)
(* callback of the traversal has been invoked.                             *)
(***************************************************************************)
C6_EmptyQueryRejected ==
    (Done /\ query = <<>>) => (result = Err(EmptyQuery) /\ ncalls = 0)

(***************************************************************************)
(* C7: when more than one value was recorded at the root output frame,     *)
(* execute signals TwoMatchingPaths; when one was, it returns that value;  *)
(* when none was, None.                                                    *)
(***************************************************************************)
RootValues == output[1].list_items \o output[1].map_values
C7_TwoMatchingPaths ==
    (Done /\ query # <<>> /\ output # <<>> /\ result.tag \in {"Ok", "TwoMatchingPaths"})
        => /\ Len(RootValues) > 1 => result.tag = "TwoMatchingPaths"
           /\ Len(RootValues) = 1 => Returned(Some(RootValues[1]))
           /\ Len(RootValues) = 0 => Returned(None)

(***************************************************************************)
(* C8: whenever the document hands over a map key that is not a string,    *)
(* execute returns Err(InternalError): no panic, no value.                 *)
(***************************************************************************)
C8_NonStringKeyIsInternalError ==
    (Done /\ "non_string_key" \in events) => result.tag = "InternalError"

NameInGrammar(n) ==
    /\ n # <<>>
    /\ \A i \in 1..Len(n) : n[i] \notin {".", "["} \cup Whitespace
InGrammar(q) == \A i \in 1..Len(q) : q[i].tag = "Field" => NameInGrammar(q[i].name)

IsNameChar(c) == c \notin {".", "["} \cup Whitespace
RECURSIVE NameEnd(_, _)
NameEnd(t, i) == IF i <= Len(t) /\ IsNameChar(t[i]) THEN NameEnd(t, i + 1) ELSE i
RECURSIVE DigitEnd(_, _)
DigitEnd(t, i) == IF i <= Len(t) /\ is_digit(t[i]) THEN DigitEnd(t, i + 1) ELSE i
RECURSIVE Decimal(_, _)
Decimal(digits, acc) ==
    IF digits = <<>> THEN acc ELSE Decimal(Tail(digits), 10 * acc + DigitValue(Head(digits)))

(* the number the digits denote is greater than the greatest usize *)
TooBig(digits) ==
    LET d == StripZeros(digits)
    IN  \/ Len(d) > 20
        \/ Len(d) = 20 /\ DigitsGreater(d, UsizeMaxDigits)

(* the well-formed element that starts at t[i], if one does *)
ElementAt(t, i) ==
    IF i > Len(t) THEN [ok |-> FALSE, elem |-> NoElem, next |-> i]
    ELSE IF t[i] = "."
    THEN LET j == NameEnd(t, i + 1)
         IN  [ok |-> j > i + 1 /\ (j > Len(t) \/ t[j] \notin Whitespace),
              elem |-> Field(SubSeq(t, i + 1, j - 1)), next |-> j]
    ELSE IF t[i] = "["
    THEN LET j == DigitEnd(t, i + 1)
             digits == SubSeq(t, i + 1, j - 1)
             ok == j > i + 1 /\ j <= Len(t) /\ t[j] = "]" /\ ~TooBig(digits)
         IN  [ok |-> ok, elem |-> IF ok THEN ArrayItem(Decimal(digits, 0)) ELSE NoElem,
              next |-> j + 1]
    ELSE [ok |-> FALSE, elem |-> NoElem, next |-> i]

(* the well-formed elements t starts with, and where they stop *)
RECURSIVE Scan(_, _, _)
Scan(t, i, acc) ==
    LET e == ElementAt(t, i)
    IN  IF e.ok THEN Scan(t, e.next, Append(acc, e.elem)) ELSE [elems |-> acc, stop |-> i]
Scanned == Scan(data, 1, <<>>)
Stop == Scanned.stop
WellFormed == Stop > Len(data)
Parsed == ppc = "done"
Fails(e) == presult = PResult(e, <<>>)
(* the text goes on after its well-formed elements with the character c *)
StopsAt(c) == Stop <= Len(data) /\ data[Stop] = c
FollowedBy(cs) == Stop + 1 <= Len(data) /\ data[Stop + 1] \in cs
AtEnd == Stop = Len(data)

(***************************************************************************)
(* C11: a text that is a concatenation of well-formed elements (indices    *)
(* within usize) parses to exactly those elements in order, each name the  *)
(* maximal run and each index the decimal value of its digits.             *)
(***************************************************************************)
C11_WellFormedTextParses ==
    (Parsed /\ WellFormed) => presult = PResult(POk, Scanned.elems)

(* a text of a name, an index with a leading zero and more has been parsed *)
C11_Witness ==
    /\ Parsed /\ WellFormed /\ ~rendered.some
    /\ Len(Scanned.elems) = 3
    /\ \E i \in 1..3 : Scanned.elems[i] = ArrayItem(7)
    /\ \E i \in 1..3 : Scanned.elems[i].tag = "Field"
    /\ presult = PResult(POk, Scanned.elems)

(***************************************************************************)
(* C12: a '.' that starts an element and is followed at once by '.', by    *)
(* '[' or by the end of the input makes parse fail with MissingField,      *)
(* whatever valid elements precede it.                                     *)
(***************************************************************************)
C12_MissingField ==
    (Parsed /\ StopsAt(".") /\ (AtEnd \/ FollowedBy({".", "["}))) => Fails(MissingField)

C12_Witness ==
    /\ Parsed /\ StopsAt(".") /\ FollowedBy({"["}) /\ Len(Scanned.elems) = 2
    /\ Fails(MissingField)

(***************************************************************************)
(* C13: a '[' that starts an element and is followed at once by ']' or by  *)
(* the end of the input makes parse fail with MissingNumber(k), k the      *)
(* zero-based index of the character after that '['.                       *)
(***************************************************************************)
C13_MissingNumber ==
    (Parsed /\ StopsAt("[") /\ (AtEnd \/ FollowedBy({"]"}))) => Fails(PErr("MissingNumber", Stop, "", ""))

(* "[0][]": MissingNumber(4) *)
C13_Witness ==
    /\ Parsed /\ data = <<"[", "0", "]", "[", "]">>
    /\ Fails(PErr("MissingNumber", 4, "", ""))

(***************************************************************************)
(* C14: whitespace inside a field name (right after the '.' or after name  *)
(* characters) makes parse fail with BadField(k), k the zero-based index   *)
(* of that whitespace character.                                           *)
(***************************************************************************)
WhitespaceInName ==
    /\ StopsAt(".")
    /\ NameEnd(data, Stop + 1) <= Len(data)
    /\ data[NameEnd(data, Stop + 1)] \in Whitespace
C14_BadFieldAtWhitespace ==
    (Parsed /\ WhitespaceInName) => Fails(BadField(NameEnd(data, Stop + 1) - 1))

(***************************************************************************)
(* C15: when the input ends inside an index that was opened with '[' and   *)
(* has one or more digits but no ']', parse fails with UnexpectedEOF(']')  *)
(* and returns no query.                                                   *)
(***************************************************************************)
EndsInsideIndex ==
    /\ StopsAt("[")
    /\ DigitEnd(data, Stop + 1) > Stop + 1
    /\ DigitEnd(data, Stop + 1) > Len(data)
C15_UnexpectedEOF ==
    (Parsed /\ EndsInsideIndex) => Fails(UnexpectedEOF("]"))

(***************************************************************************)
(* C16: where an element must start (at the start of the input or right    *)
(* after a complete element), a character that is neither '.' nor '['      *)
(* makes parse fail with BadCharacter(k), k that character's zero-based    *)
(* index; no query is returned.                                            *)
(***************************************************************************)
C16_BadCharacter ==
    (Parsed /\ Stop <= Len(data) /\ data[Stop] \notin {".", "["})
        => Fails(PErr("BadCharacter", Stop - 1, "", ""))

C16_Witness ==
    /\ Parsed /\ Stop <= Len(data) /\ data[Stop] \notin {".", "["}
    /\ Len(Scanned.elems) = 2
    /\ Fails(PErr("BadCharacter", Stop - 1, "", ""))

(***************************************************************************)
(* C17: digits between '[' and ']' that denote a number greater than the   *)
(* greatest usize make parse fail with BadIndex(k, _), k the zero-based    *)
(* index of the first digit, and never yield an ArrayItem; digits within   *)
(* range, leading zeros included, yield their exact value.                 *)
(***************************************************************************)
IndexAtStop ==
    /\ StopsAt("[")
    /\ DigitEnd(data, Stop + 1) > Stop + 1
    /\ DigitEnd(data, Stop + 1) <= Len(data)
    /\ data[DigitEnd(data, Stop + 1)] = "]"
IsIndex(e) == e.tag = "ArrayItem"
C17_BadIndexOnOverflow ==
    /\ (Parsed /\ IndexAtStop)
           => /\ presult.tag = "BadIndex" /\ presult.err.pos = Stop
              /\ presult.elements = <<>>
    /\ (Parsed /\ WellFormed)
           => /\ presult.tag = "Ok"
              /\ SelectSeq(presult.elements, IsIndex) = SelectSeq(Scanned.elems, IsIndex)

(* an index too great after two good elements, one with leading zeros *)
C17_Witness ==
    /\ Parsed /\ IndexAtStop /\ presult.tag = "BadIndex"
    /\ Len(Scanned.elems) = 2 /\ Scanned.elems[1] = ArrayItem(1)
    /\ Len(data) > 40

(***************************************************************************)
(* C18: execute run twice with the same query on the same document, each   *)
(* run with an executor of its own from QueryExecutor::new, returns the    *)
(* same result both times; each run starts from the executor as new makes  *)
(* it, whatever the run before left behind; and no step changes the query   *)
(* or the document.                                                        *)
(***************************************************************************)
FreshRun == pc = "run" /\ ncalls = 0 /\ todo = <<Value(doc)>>
SecondRun == previous # NoResult

Matched ==
    Len(query) <= Len(current_path) /\ SubSeq(current_path, 1, Len(query)) = query
Pending ==
    Len(current_path) < Len(query) /\ SubSeq(query, 1, Len(current_path)) = current_path
Expected == query[Len(current_path) + 1]
NotMatching == ~Matched /\ ~Pending

(* the step hands the offered value to the executor: the value is traversed *)
Descends == Len(todo') = Len(todo) + 1 /\ Head(todo') = Value(Head(todo).d)
(* the step goes on to the document's next call *)
Skips == todo' = Tail(todo)

(***************************************************************************)
(* C19: a step of sequence_element that returns without a panic descends    *)
(* into the element exactly when the traversal is Matched, or is Pending   *)
(* with an expected ArrayItem whose index is the element's position in its *)
(* sequence; an element not descended into is skipped and leaves           *)
(* current_path and output as they were.                                   *)
(***************************************************************************)
C19_IndexGating ==
    [][(Running("element") /\ pc' = "run") =>
         LET position_in_seq == Head(todo).index
             eligible ==
                 \/ Matched
                 \/ /\ Pending
                    /\ Expected.tag = "ArrayItem"
                    /\ Expected.index = position_in_seq
         IN  /\ Descends <=> eligible
             /\ ~Descends => (Skips /\ current_path' = current_path /\ output' = output)]_vars

(* the sequence [x, y] under the query [1]: x was passed over, y returned *)
C19_Witness ==
    /\ pc = "run" /\ query = <<ArrayItem(1)>> /\ current_path = <<>>
    /\ state = <<Sequence(2, 2)>>
    /\ Len(output) = 1 /\ Len(output[1].list_items) = 1
    /\ todo = <<Call("seq_end")>>


(***************************************************************************)
(* C20: a step of serialize_field (of a struct or of a struct variant)      *)
(* that returns without a panic enters the field exactly when the          *)
(* traversal is Matched, or is Pending with an expected Field of the       *)
(* field's name: the name is pushed onto current_path and the value is     *)
(* traversed.  A field not entered is skipped and leaves current_path,     *)
(* state and output as they were.  The name is appended to the keys of the *)
(* innermost output frame exactly when the traversal was Matched before    *)
(* the step; otherwise output is as it was.                                 *)
(***************************************************************************)
C20_FieldGating ==
    [][(Running("field") /\ pc' = "run") =>
         LET name == Head(todo).name
             n == Len(output)
             eligible ==
                 \/ Matched
                 \/ /\ Pending
                    /\ Expected.tag = "Field"
                    /\ Expected.name = name
         IN  /\ Descends <=> eligible
             /\ Descends => (current_path' = Append(current_path, Field(name)) /\ state' = state)
             /\ ~Descends =>
                   /\ Skips
                   /\ current_path' = current_path /\ state' = state /\ output' = output
             /\ IF Matched
                THEN /\ n > 0 /\ Len(output') = n
                     /\ SubSeq(output', 1, n - 1) = SubSeq(output, 1, n - 1)
                     /\ output'[n].map_keys = Append(output[n].map_keys, name)
                     /\ output'[n].map_values = output[n].map_values
                     /\ output'[n].list_items = output[n].list_items
                ELSE output' = output]_vars

(* the record {a: {a: v}} under the query .a: the outer field was entered  *)
(* while Pending and left no key, the inner one while Matched and left one *)
C20_Witness ==
    /\ pc = "run" /\ query = <<Field(NA)>> /\ current_path = <<Field(NA)>>
    /\ doc.kind = "struct" /\ doc.fields = <<NA>>
    /\ Len(output) = 2
    /\ output[1].map_keys = <<>>
    /\ output[2].map_keys = <<NA>> /\ Len(output[2].map_values) = 1
    /\ Head(todo) = Call("map_end")


(***************************************************************************)
(* C21: a step of the traversal that begins and ends at a location whose    *)
(* match state is not Matched leaves output as it was: no frame pushed or  *)
(* popped, no key, value or item appended.  The location of a value is     *)
(* current_path with the names the executor has to enter for it (a map's   *)
(* key, a variant's case name), so the steps covered are those on every    *)
(* primitive and container off the query's path, the values under off-path *)
(* keys included.                                                          *)
(***************************************************************************)
C21_UnmatchedLeavesOutput ==
    [][(pc = "run" /\ pc' = "run" /\ ~Matched /\ ~Matched') => output' = output]_vars

(* the map {a: x, b: y} under the query .b: the value under the key a has  *)
(* been traversed and nothing was recorded                                 *)
C21_Witness ==
    /\ pc = "run" /\ query = <<Field(NB)>> /\ current_path = <<Field(NA)>>
    /\ doc.kind = "map" /\ Len(doc.items) = 2
    /\ state # <<>> /\ Last(state).s = "MapValue"
    /\ todo # <<>> /\ Head(todo).op = "map_value_return"
    /\ output = <<[kind |-> "Root", list_items |-> <<>>, map_keys |-> <<>>,
                   map_values |-> <<>>]>>


(***************************************************************************)
(* The scopes entered and not yet left, read off the calls still to come:  *)
(* a handler waiting for its nested value to return, or a variant waiting  *)
(* for its end, is a scope that is open; so is a map entry from the moment *)
(* its string key has been handed over.  Innermost first in todo.          *)
(***************************************************************************)
KeyHanded(i) ==
    \/ i = 1
    \/ i = 2 /\ todo[1].op = "key_return" /\ todo[1].d.kind \in {"str", "unit_variant"}
ScopeOf(i) ==
    LET c == todo[i]
    IN  IF c.op = "element_return" THEN <<ArrayItem(c.index)>>
        ELSE IF c.op \in {"field_return", "newtype_variant_return", "map_value_return",
                          "tuple_variant_end", "struct_variant_end"}
        THEN <<Field(c.name)>>
        ELSE IF c.op = "map_value" /\ KeyHanded(i) THEN <<Field(c.name)>>
        ELSE <<>>
EnteredPath == Flatten([i \in 1..Len(todo) |-> ScopeOf(Len(todo) + 1 - i)])

(***************************************************************************)
(* C22: at every callback of a traversal current_path is, outermost first, *)
(* the field names, map keys, case names and indices of the scopes that    *)
(* have been entered and not yet left.                                     *)
(***************************************************************************)
C22_PathIsLocation == pc = "run" => current_path = EnteredPath

(* inside the first element of a sequence that is the value of a map key   *)
C22_Witness ==
    /\ pc = "run" /\ doc.kind = "map"
    /\ current_path = <<Field(NA), ArrayItem(0)>>
    /\ todo # <<>> /\ Head(todo).op = "element_return"


(***************************************************************************)
(* C23: for every query and every current_path, next_step returns          *)
(* NotMatching exactly when the two differ at a position both have,        *)
(* Found(e) with e the query's element at position Len(current_path)       *)
(* exactly when current_path is a strict prefix of the query, and          *)
(* IsMatch(s) with s the elements of current_path after the first          *)
(* Len(query) exactly when the query is a prefix of current_path or equal  *)
(* to it; exactly one of the three conditions holds.                       *)
(***************************************************************************)
DifferBelowBoth ==
    \E i \in 1..Len(query) : i <= Len(current_path) /\ query[i] # current_path[i]
StrictPrefixOfQuery ==
    /\ Len(current_path) < Len(query)
    /\ \A i \in 1..Len(current_path) : current_path[i] = query[i]
QueryIsPrefix ==
    /\ Len(query) <= Len(current_path)
    /\ \A i \in 1..Len(query) : query[i] = current_path[i]
RestOfPath == [i \in 1..(Len(current_path) - Len(query)) |-> current_path[Len(query) + i]]

C23_MatchStateIsPrefixRelation ==
    nstep # NoStep =>
        /\ nstep.tag = "NotMatching" <=> DifferBelowBoth
        /\ nstep.tag = "Found" <=> StrictPrefixOfQuery
        /\ nstep.tag = "IsMatch" <=> QueryIsPrefix
        /\ nstep.tag = "Found" => nstep.elem = query[Len(current_path) + 1]
        /\ nstep.tag = "IsMatch" => nstep.rel = RestOfPath
        /\ nstep.tag \in {"NotMatching", "Found", "IsMatch"}
        /\ ~(DifferBelowBoth /\ StrictPrefixOfQuery)
        /\ ~(DifferBelowBoth /\ QueryIsPrefix)
        /\ ~(StrictPrefixOfQuery /\ QueryIsPrefix)

(* a query and a path that agree on their first element and differ on the  *)
(* second, the path being the longer                                       *)
C23_Witness ==
    /\ nstep # NoStep /\ nstep.tag = "NotMatching"
    /\ Len(query) = 2 /\ Len(current_path) = 3
    /\ query[1] = current_path[1] /\ query[2] # current_path[2]


(***************************************************************************)
(* C24: a sequence that announces the length L starts with the counter     *)
(* (0, L); after each of its elements, descended into or not, the counter  *)
(* is (number of elements offered so far, L); and when the document is a   *)
(* sequence of sound values that offers more than L elements, or ends      *)
(* after fewer than L, execute returns Err(InternalError).                 *)
(***************************************************************************)
AnnouncesLength == doc.kind = "seq" /\ doc.len # NoLen
OffersMore == AnnouncesLength /\ Len(doc.items) > doc.len
OffersFewer == AnnouncesLength /\ Len(doc.items) < doc.len

C24_LengthCounter ==
    /\ [][(Serializing({"seq"}) /\ Head(todo).d.len # NoLen /\ pc' = "run")
               => Last(state') = Sequence(0, Head(todo).d.len)]_vars
    /\ [][(Running("element") /\ pc' = "run")
               => state'[Len(state)] = Sequence(Head(todo).index + 1, Last(state).len)]_vars
    /\ []((Done /\ Healthy(doc) /\ (OffersMore \/ OffersFewer))
              => result.tag = "InternalError")

(***************************************************************************)
(* C25: serialize_seq with no length announced is accepted, and for a      *)
(* document that is such a sequence of records, maps with string keys      *)
(* (each key offered once), sequences and primitives, execute returns what *)
(* it returns when the length is announced: what navigating the query in   *)
(* the generic JSON conversion of the document yields.                     *)
(***************************************************************************)
PlainSequence ==
    /\ doc.kind = "seq"
    /\ Healthy(doc) /\ ~HasKind(doc, VariantKinds) /\ DistinctKeys(doc)
    /\ \A i \in 1..Len(doc.items) : ~HasKind(doc.items[i], {"seq"})
    /\ query # <<>>

C25_UnannouncedLengthAccepted ==
    /\ [][(Serializing({"seq"}) /\ Head(todo).d.len = NoLen) => pc' = "run"]_vars
    /\ []((Done /\ PlainSequence /\ doc.len = NoLen)
              => Returned(JNav(DocToJSON(doc), query)))


(***************************************************************************)
(* C26: an Option that is None, at a path p that lies inside a record,     *)
(* map, sequence or tuple/struct variant, is the null value: the query p   *)
(* returns Some(null), not None; and a query that addresses a container of *)
(* records, maps, sequences and primitives returns the container with null *)
(* in the slot of every None inside it.                                    *)
(***************************************************************************)
NoneAt(p) ==
    /\ p # <<>> /\ Len(NodesAt(doc, p)) = 1
    /\ Peel(NodesAt(doc, p)[1]).kind = "none"
    /\ Enclosed(p)

C26_AbsentIsNull ==
    /\ (Done /\ Healthy(doc) /\ NoneAt(query)) => (Returned(Some(JNull)) /\ result # Ok(None))
    /\ (Done /\ PlainContainerQuery /\ HasKind(Target[1], {"none"}))
           => Returned(Some(DocToJSON(Target[1])))

(* the record {a: x, b: None} under the query .b *)
C26_Witness ==
    /\ Done /\ Healthy(doc) /\ NoneAt(query)
    /\ doc.kind = "struct" /\ Len(doc.items) = 2 /\ query = <<Field(NB)>>
    /\ Returned(Some(JNull))


(***************************************************************************)
(* C27: the step that takes a newtype struct or a Some(x) hands the        *)
(* wrapped value on and leaves current_path, state and output as they      *)
(* were, whatever the wrapper's name; and for every query, execute on a    *)
(* document returns what it returns on the document with the wrapped       *)
(* values in place of their wrappers.                                      *)
(***************************************************************************)
C27_WrappersAreTransparent ==
    /\ [][Serializing(Wrappers) =>
             /\ pc' = "run"
             /\ current_path' = current_path /\ state' = state /\ output' = output
             /\ todo' = <<Value(Head(todo).d.items[1])>> \o Tail(todo)]_vars
    /\ []((Done /\ SecondRun) => result = previous)

(* a value was returned for a two-element query on the document without    *)
(* its wrappers, after the run on the document with them                   *)
C27_Witness ==
    /\ Done /\ SecondRun /\ ~HasKind(doc, Wrappers)
    /\ result.tag = "Ok" /\ result.some
    /\ Len(query) = 2


(***************************************************************************)
(* C28: for a non-empty query that addresses one node of the document, a   *)
(* node that is or holds a variant with a payload, execute returns that    *)
(* node's subtree as the generic JSON conversion of the document holds it, *)
(* each such variant being the object {CaseName: payload}.                 *)
(***************************************************************************)
VariantInTarget ==
    /\ Healthy(doc) /\ DistinctKeys(doc)
    /\ query # <<>> /\ Len(Target) = 1
    /\ HasKind(Target[1], PayloadKinds)

C28_VariantInMatchedSubtree ==
    (Done /\ VariantInTarget)
        => /\ Returned(Some(DocToJSON(Target[1])))
           /\ Returned(JNav(DocToJSON(doc), query))


(***************************************************************************)
(* C29: for a document that follows the traversal protocol (string keys,   *)
(* every sequence offering as many elements as it announced, no failing    *)
(* value) and a non-empty query, execute ends without a panic of the       *)
(* executor: no assertion on the kind of an output frame fails, no         *)
(* primitive is recorded with an empty state stack or on a pending map     *)
(* key, and no Root frame is finished.                                     *)
(***************************************************************************)
RECURSIVE RespectsLengths(_)
RespectsLengths(d) ==
    /\ d.kind \in {"seq", "tuple_variant"} => d.len = Len(d.items)
    /\ \A i \in 1..Len(d.items) : RespectsLengths(d.items[i])

Conforming == Healthy(doc) /\ RespectsLengths(doc) /\ query # <<>>

C29_NoPanic == (Done /\ Conforming) => result.tag # "Panic"


(***************************************************************************)
(* C30: whenever a Map frame is folded into the frame below it, it holds   *)
(* as many keys as values, and its keys and values are, in order, the      *)
(* names and the JSON conversions of the members of the document node      *)
(* being left.                                                             *)
(***************************************************************************)
EndOps == {"seq_end", "map_end", "struct_variant_end", "tuple_variant_end"}

(* the executor when the pending end call reaches exit_map: a tuple        *)
(* variant has left its sequence by then                                   *)
AtFold == IF Running("tuple_variant_end") THEN exit_sequence(Self) ELSE Self
Folded == Last(AtFold.output)

FoldsObject ==
    /\ pc = "run" /\ todo # <<>> /\ Head(todo).op \in EndOps
    /\ pc' = "run" /\ first_err' = OkS
    /\ ~Failed(AtFold) /\ AtFold.output # <<>>
    /\ Len(output') < Len(AtFold.output)
    /\ Folded.kind = "Map"

(* the node whose end call is pending: a variant is left with its case     *)
(* name still on current_path                                              *)
LeftNode ==
    IF Running("map_end") \/ current_path = <<>> THEN NodesAt(doc, current_path)
    ELSE NodesAt(doc, Front(current_path))

PairsAsDocument(frame, n) ==
    LET ms == Members(n)
    IN  /\ frame.map_keys = [i \in 1..Len(ms) |-> ms[i][1].name]
        /\ frame.map_values = [i \in 1..Len(ms) |-> DocToJSON(ms[i][2])]

C30_FoldedObjectPairsKeys ==
    [][FoldsObject
          => /\ Len(Folded.map_keys) = Len(Folded.map_values)
             /\ (Healthy(doc) /\ DistinctKeys(doc) /\ ~Running("seq_end")
                   /\ Len(LeftNode) = 1)
                    => PairsAsDocument(Folded, LeftNode[1])]_vars


(***************************************************************************)
(* C31: parse_query terminates on every input: a call of next that hands   *)
(* out an element moves the position forward by at least one character, no *)
(* call moves it backwards, and parse_query returns, after at most         *)
(* Len(data) + 1 calls of next, an error or at most Len(data) elements.    *)
(***************************************************************************)
C31_ParseTerminates ==
    /\ [][(ppc = "run" /\ Len(parsed') > Len(parsed)) => position' > position]_vars
    /\ [][position' >= position]_vars
    /\ [](ppc = "done" => /\ nnext <= Len(data) + 1
                          /\ presult.tag = "Ok" => Len(presult.elements) <= Len(data))
    /\ (ppc = "run") ~> (ppc = "done")

(* three calls of next returned two elements and the end of the input *)
C31_Witness ==
    /\ ppc = "done" /\ presult.tag = "Ok"
    /\ Len(presult.elements) = 2 /\ nnext = 3
    /\ position >= Len(data)


(***************************************************************************)
(* The output frames owed to the containers that are open.  A container    *)
(* whose end call is still to come was entered at the path of the scopes   *)
(* around it; it pushed a frame on entry when the query was a prefix of    *)
(* that path.  A tuple variant enters a map at its own location and a      *)
(* sequence under its case name.                                           *)
(***************************************************************************)
IsPrefix(q, p) == Len(q) <= Len(p) /\ SubSeq(p, 1, Len(q)) = q
PathAround(i) == Flatten([k \in 1..(Len(todo) - i) |-> ScopeOf(Len(todo) + 1 - k)])
Owed(i) ==
    LET c == todo[i]
        here == IF IsPrefix(query, PathAround(i)) THEN 1 ELSE 0
        under == IF IsPrefix(query, PathAround(i) \o <<Field(c.name)>>) THEN 1 ELSE 0
    IN  IF c.op \in {"seq_end", "map_end", "struct_variant_end"} THEN here
        ELSE IF c.op = "tuple_variant_end" THEN here + under
        ELSE 0
RECURSIVE OwedFrom(_)
OwedFrom(i) == IF i > Len(todo) THEN 0 ELSE Owed(i) + OwedFrom(i + 1)
OpenContainers == {i \in 1..Len(todo) : todo[i].op \in EndOps}

(***************************************************************************)
(* C32: for a document that follows the protocol and a non-empty query, a  *)
(* traversal that returns Ok leaves current_path and state empty and       *)
(* output with its one root frame; during the traversal output holds more  *)
(* than one frame only where the traversal is Matched, and it holds, above *)
(* the root frame, exactly one frame for each entry of an open container   *)
(* that was made at a matched location, so that a frame pushed on entry is *)
(* popped at that container's exit and nowhere else.                       *)
(***************************************************************************)
C32_StacksBalanced ==
    /\ (Done /\ Conforming /\ result.tag = "Ok")
           => current_path = <<>> /\ state = <<>> /\ Len(output) = 1
    /\ (pc = "run" /\ Conforming /\ Len(output) > 1) => Matched
    /\ (pc = "run" /\ Conforming) => Len(output) = 1 + OwedFrom(1)

(* the query .a on {a: [[..]]} or the like has returned: a sequence inside  *)
(* a sequence was collected, two frames above the root frame               *)
C32_Witness ==
    /\ Done /\ Conforming /\ result.tag = "Ok" /\ result.some
    /\ Len(Target) = 1 /\ Target[1].kind = "seq" /\ Len(Target[1].items) = 1
    /\ Target[1].items[1].kind \in ContainerKinds
    /\ current_path = <<>> /\ state = <<>> /\ Len(output) = 1


====
